---- MODULE Spec2Model ----
(***************************************************************************)
(* The auto-save controller of DevCodeX_Web (useAutoSave, in               *)
(* src/src/features/answers/hooks/useSaveAnswer.ts) together with the save *)
(* callbacks the question pages hand to it.                                *)
(*                                                                         *)
(* One hook instance is modelled.  A React render is folded into the       *)
(* action that causes it: a state setter that changes the state, or new    *)
(* props, re-renders the component, recomputes the returned                *)
(* hasUnsavedChanges from the ref, and re-runs the debounce effect when    *)
(* one of its dependencies changed.  A state setter called with the        *)
(* current state does not re-render (React bails out).                     *)
(*                                                                         *)
(* Time is counted in milliseconds and advances in steps of TickMs.  A     *)
(* timer fires when its delay has elapsed: time does not advance past a    *)
(* timer that is due.  Promises settle at any time.                        *)
(***************************************************************************)
EXTENDS Integers, Sequences, FiniteSets, TLC

\* debounceMs = 1000 (default of the option, and what the pages pass)
DebounceMs == 1000
\* the delay of the auto-reset timer
ResetMs == 2000
\* granularity of the clock
TickMs == DebounceMs \div 2

\* content values the editor can hold
Contents == {"a", "ab", "abc"}
\* the content the hook is mounted with
InitialContent == "a"

\* at most this many saves are outstanding (in flight, or armed in the
\* debounce timer) at a time; the code has no such limit
MaxInFlight == 2
\* a burst of content changes is counted up to this many changes
MaxBurst == 2

\* delay = 300 (default of useDebounce, and what its callers pass)
DelayMs == 300
\* the delays a caller passes
Delays == {DelayMs, 2 * DelayMs}
MaxDelay == 2 * DelayMs
\* granularity of the clock of useDebounce
DebounceTickMs == DelayMs \div 2

\* QuestionFilters: how many picks of a technology or difficulty are followed
MaxSelections == 2

\* SearchInput: the default debounceMs, and the step of its clock
SearchDebounceMs == 300
SearchTickMs == SearchDebounceMs \div 2
\* the values a debounced search input holds
Values == {"", "r", "re"}
\* the value useDebounce is mounted with
InitialValue == ""
\* cancelled propagations are counted up to this many
MaxRestarts == 2

\* the function identities an owner passes as onSave, and as onCancel
\* (0: no onCancel)
OnSaveIds == {1, 2}
OnCancelIds == {0, 1, 2}

AutoSaveStatus == {"idle", "saving", "saved", "error"}
Hosts == {"hook", "QuestionDetailPage", "EditQuestionPage"}
Pages == {"QuestionDetailPage", "EditQuestionPage"}

VARIABLES
    host,               \* who supplies onSave: a plain caller, or one of the pages
    isMounted,          \* isMountedRef.current
    content,            \* the content argument of the current render
    enabled,            \* options.enabled of the current render
    status,             \* the status state
    lastSavedContent,   \* lastSavedContentRef.current
    hasUnsavedChanges,  \* the value returned by the last committed render
    timerRef,           \* the pending debounce timers (timerRef.current while it is live)
    cleanupRegistered,  \* the last run of the debounce effect returned its cleanup
    inflight,           \* onSave calls started and not settled, in start order
    resetTimers,        \* the pending auto-reset timers
    quiet,              \* ms since the last content change, up to DebounceMs
    burst,              \* bookkeeping of the current burst of content changes
    failedQuiet,        \* a save of the current content was rejected, nothing is armed,
                        \* and no content change or forceSave has happened since
    ev,                 \* the last step taken
    value,              \* useDebounce: the value argument of the current render
    delay,              \* useDebounce: the delay argument of the current render
    debouncedValue,     \* useDebounce: the debouncedValue state
    timeoutId,          \* useDebounce: the pending timers
    consumerMounted,    \* useDebounce: the component using the hook is mounted
    unchangedFor,       \* ms since value last changed, up to MaxDelay
    restarts,           \* pending propagations cancelled in a row by new values,
                        \* up to MaxRestarts
    step,               \* the last step of useDebounce
    autoSave,           \* AnswerEditor: the autoSave prop
    disabled,           \* AnswerEditor: the disabled prop
    initialContent,     \* AnswerEditor: the initialContent prop
    onSave,             \* AnswerEditor: the identity of the onSave prop
    onCancel,           \* AnswerEditor: the identity of the onCancel prop, 0 when absent
    handleManualSaveRef,\* AnswerEditor: handleManualSaveRef.current
    onCancelRef,        \* AnswerEditor: onCancelRef.current
    listener,           \* AnswerEditor: calls of add- and removeEventListener so far
    direct,             \* onSave calls made by handleManualSave itself, not settled
    refetches,          \* QuestionDetailPage: refetches under way, by the content
                        \* they deliver
    key,                \* the last step of AnswerEditor
    superseded,         \* how many of the onSave calls in flight (the first ones)
                        \* were started before a call that has succeeded
    searchValue,        \* SearchInput: the value prop, the state of its owner
    localValue,         \* SearchInput: the localValue state
    debounceRef,        \* SearchInput: the pending timers (debounceRef.current
                        \* while it is live, and those it no longer refers to)
    searchMounted,      \* SearchInput: the component is mounted
    cleared,            \* SearchInput: the field was cleared and no key typed since
    lastOnChange,       \* SearchInput: the last onChange call the owner received
    query,              \* QuestionFilters: filters.query of the owner's state
    filtersId,          \* QuestionFilters: which object the owner's filters state is
    syncPending,        \* QuestionFilters: a render has committed with changed
                        \* dependencies of the sync effect, which is due to run
    selections          \* QuestionFilters: technologies and difficulties picked so
                        \* far, up to MaxSelections

\* the hook and its environment, with the record of the last step
hookVars == <<host, isMounted, content, enabled, status, lastSavedContent,
              hasUnsavedChanges, timerRef, cleanupRegistered, inflight, resetTimers,
              failedQuiet, ev>>
\* the observation of bursts of content changes
burstVars == <<quiet, burst>>

\* the useDebounce hook and its observation
debounceVars == <<value, delay, debouncedValue, timeoutId, consumerMounted, unchangedFor,
                  restarts, step>>

\* the AnswerEditor component around the hook
editorVars == <<autoSave, disabled, initialContent, onSave, onCancel, handleManualSaveRef,
                onCancelRef, listener, direct, key>>

\* the page around the editor
pageVars == <<refetches>>

\* the components around the hooks
\* the SearchInput component with its owner
searchVars == <<searchValue, localValue, debounceRef, searchMounted, cleared, lastOnChange>>

\* the QuestionFilters component with its owner, around useDebounce
filterVars == <<query, filtersId, syncPending, selections>>

widgetVars == <<searchVars, filterVars>>

uiVars == <<editorVars, pageVars, widgetVars>>

\* the observation of overlapping saves
overlapVars == <<superseded>>

vars == <<hookVars, burstVars, debounceVars, uiVars, overlapVars>>

\* all but the hook, and all but useDebounce
notHookVars == <<burstVars, debounceVars, uiVars, overlapVars>>
notDebounceVars == <<hookVars, burstVars, uiVars, overlapVars>>

Min(a, b) == IF a < b THEN a ELSE b

\* The record of a step: what was done, with which content (for ResetFire: the
\* status it found), how onSave settled, how the promise of performSave
\* settled, who had started the save, how long the fired reset timer had been
\* pending, and which callbacks were called.
Ev(t, a, o, p, g, n, s, e) ==
    [type |-> t, arg |-> a, outcome |-> o, promise |-> p, origin |-> g, age |-> n,
     onSuccess |-> s, onError |-> e]

\* A step that involves no save.
Plain(t, a) == Ev(t, a, "", "", "", 0, FALSE, FALSE)

NoBurst == [active |-> FALSE, changes |-> 0, calls |-> 0, arg |-> "", differs |-> FALSE]

(***************************************************************************)
(* Pure parts of the code                                                  *)
(***************************************************************************)

\* What a render returns as hasUnsavedChanges.  A setter that did not change
\* the state commits no render, so the previously returned value stays.
Rendered(changed, c, snapshot, old) == IF changed THEN c # snapshot ELSE old

\* What the page's handleSaveAnswer does with the outcome of the update
\* request: every branch ends normally, so the promise it returns resolves.
handleSaveAnswer(backend) ==
    CASE backend = "Succeeded" -> "resolve"
      [] backend = "Failed"    -> "resolve"
      [] backend = "Rejected"  -> "resolve"

\* The outcomes an onSave call can have, as the environment decides them.
Outcomes(h) == IF h = "hook" THEN {"resolve", "reject"} ELSE {"Succeeded", "Failed", "Rejected"}

\* How the onSave promise settles for an outcome.
OnSaveResult(h, o) == IF h = "hook" THEN o ELSE handleSaveAnswer(o)

\* How the promise of performSave settles when onSave settled with r and the
\* catch branch is left without re-throwing.
PerformSavePromiseNoCatch(r) == IF r = "reject" THEN "rejected" ELSE "fulfilled"
PerformSavePromise(r) == "fulfilled"

\* performSave after the await: the status it sets and the snapshot it leaves
\* when onSave settled with r for content c.
SettledStatusAlwaysSaved(r) == "saved"
SettledStatus(r) == IF r = "resolve" THEN "saved" ELSE "error"

SettledSnapshot(r, c, snapshot) == IF r = "resolve" THEN c ELSE snapshot

\* The delay of the auto-reset timer.
ResetDelayShort == DebounceMs
ResetDelay == ResetMs

\* The debounce effect.  The cleanup of the previous run (if it returned one)
\* has cleared the timer; the body returns early when auto-save is off or the
\* content equals the snapshot, else clears the timer and arms a new one.
EffectCleanupSkipped(registered, timers) == timers
EffectCleanup(registered, timers) == IF registered THEN {} ELSE timers

EffectArmsIgnoresEnabled(en, c, snapshot, timers) ==
    IF c = snapshot THEN timers
    ELSE {[content |-> c, remaining |-> DebounceMs]}
EffectArms(en, c, snapshot, timers) ==
    IF ~en \/ c = snapshot THEN timers
    ELSE {[content |-> c, remaining |-> DebounceMs]}

EffectRegisters(en, c, snapshot) == en /\ c # snapshot

\* The same when neither the cleanup nor the body clears the pending timer.
RunEffectNoClear(en, c, snapshot) ==
    /\ timerRef' = timerRef \cup
                       (IF EffectRegisters(en, c, snapshot)
                        THEN {[content |-> c, remaining |-> DebounceMs]} ELSE {})
    /\ cleanupRegistered' = EffectRegisters(en, c, snapshot)
RunEffect(en, c, snapshot) ==
    /\ timerRef' = EffectArms(en, c, snapshot, EffectCleanup(cleanupRegistered, timerRef))
    /\ cleanupRegistered' = EffectRegisters(en, c, snapshot)

RemoveAt(s, i) == SubSeq(s, 1, i - 1) \o SubSeq(s, i + 1, Len(s))

\* useDebounce: the delay its effect hands to setTimeout
TimeoutDelayZero(d) == 0
TimeoutDelay(d) == d

\* useDebounce: what the cleanup of its effect leaves of the pending timers
DebounceCleanupSkipped(timers) == timers
DebounceCleanup(timers) == {}

\* useDebounce: the effect runs for value v and delay d, after the cleanup of
\* its previous run
DebounceEffect(v, d, timers) ==
    DebounceCleanup(timers) \cup {[value |-> v, remaining |-> TimeoutDelay(d)]}

\* AnswerEditor: the handleManualSave of a render, by what it closes over
handleManualSave(as, os, c) == [autoSave |-> as, onSave |-> os, content |-> c]

\* AnswerEditor: what the effect that runs after every render leaves in a
\* ref, given the ref and the value of the render
RefUpdateSkipped(old, new) == old
RefUpdate(old, new) == new

\* AnswerEditor: the isSaving prop (its default)
isSaving == FALSE

\* a step of AnswerEditor: what happened, the handler that was called (if
\* one was) and the onCancel that was called (if one was)
Key(t, h, oc) == [type |-> t, handler |-> h, cancel |-> oc]
NoHandler == [autoSave |-> FALSE, onSave |-> 0, content |-> ""]

\* AnswerEditor after its first render, as QuestionDetailPage mounts it:
\* auto-save on, not disabled, content seeded from initialContent, refs
\* holding the handlers of the first render, keydown listener added
AnswerEditorInit ==
    /\ autoSave = TRUE
    /\ disabled = FALSE
    /\ initialContent = InitialContent
    /\ onSave = 1
    /\ onCancel = 1
    /\ handleManualSaveRef = handleManualSave(TRUE, 1, InitialContent)
    /\ onCancelRef = 1
    /\ listener = [added |-> 1, removed |-> 0]
    /\ direct = <<>>
    /\ refetches = {}
    /\ key = Key("Mount", NoHandler, 0)

\* SearchInput after its first render: the local value is the value prop
SearchInputInit ==
    /\ searchValue = InitialValue
    /\ localValue = InitialValue
    /\ debounceRef = {}
    /\ searchMounted = TRUE
    /\ cleared = FALSE
    /\ lastOnChange = [by |-> "Mount", arg |-> InitialValue]

\* filters.query when the filters have none
Undefined == "undefined"

\* debouncedSearch || undefined
OrUndefined(v) == IF v = "" THEN Undefined ELSE v

\* QuestionFilters after its first render on QuestionsPage: the filters are
\* {}, the search text is filters.query ?? '', the sync effect is due
QuestionFiltersInit ==
    /\ query = Undefined
    /\ filtersId = 0
    /\ syncPending = TRUE
    /\ selections = 0

\* useDebounce after its first render: the state is the value, the effect has
\* armed a timer
useDebounceInit ==
    /\ value = InitialValue
    /\ delay = DelayMs
    /\ debouncedValue = InitialValue
    /\ timeoutId = DebounceEffect(InitialValue, DelayMs, {})
    /\ consumerMounted = TRUE
    /\ unchangedFor = 0
    /\ restarts = 0
    /\ step = "Mount"

(***************************************************************************)
(* Initial state: the hook is mounted, the snapshot is the initial content *)
(***************************************************************************)
InitCommon ==
    /\ isMounted = TRUE
    /\ content = InitialContent
    /\ enabled = TRUE
    /\ status = "idle"
    /\ lastSavedContent = InitialContent
    /\ hasUnsavedChanges = FALSE
    /\ timerRef = {}
    /\ cleanupRegistered = FALSE
    /\ inflight = <<>>
    /\ resetTimers = {}
    /\ quiet = DebounceMs
    /\ burst = NoBurst
    /\ failedQuiet = FALSE
    /\ ev = Plain("Init", "")
    /\ useDebounceInit
    /\ AnswerEditorInit
    /\ superseded = 0
    /\ SearchInputInit
    /\ QuestionFiltersInit

Init == host = "hook" /\ InitCommon

PageInit == host \in Pages /\ InitCommon

(***************************************************************************)
(* performSave up to the await: nothing when unmounted, else status        *)
(* 'saving' and onSave is called.                                          *)
(***************************************************************************)
performSaveStart(c, origin) ==
    IF ~isMounted
    THEN UNCHANGED <<status, inflight, hasUnsavedChanges>>
    ELSE /\ status' = "saving"
         /\ inflight' = Append(inflight, [content |-> c, origin |-> origin])
         /\ hasUnsavedChanges' =
                Rendered(status # "saving", content, lastSavedContent, hasUnsavedChanges)

(***************************************************************************)
(* The user edits the content: render with the new content, the effect     *)
(* re-runs.  The step records whether a timer was pending.                 *)
(***************************************************************************)
ContentChange(c) ==
    /\ isMounted
    /\ c # content
    /\ Len(inflight) < MaxInFlight
    /\ content' = c
    /\ hasUnsavedChanges' = (c # lastSavedContent)
    /\ RunEffect(enabled, c, lastSavedContent)
    /\ failedQuiet' = FALSE
    /\ ev' = Ev("ContentChange", c, IF timerRef # {} THEN "cancelled" ELSE "", "", "", 0,
                FALSE, FALSE)
    /\ UNCHANGED <<host, isMounted, enabled, status, lastSavedContent, inflight, resetTimers>>

(***************************************************************************)
(* The debounce timer fires: void performSave(content of that render).     *)
(***************************************************************************)
TimerFire ==
    \E t \in timerRef :
        /\ t.remaining <= 0
        /\ timerRef' = timerRef \ {t}
        /\ performSaveStart(t.content, "debounce")
        /\ ev' = Plain("TimerFire", t.content)
        /\ UNCHANGED <<host, isMounted, content, enabled, lastSavedContent,
                       cleanupRegistered, resetTimers, failedQuiet>>

(***************************************************************************)
(* forceSave(): clear the timer, performSave(content).  The promise it     *)
(* returns is that of performSave: pending while onSave is, settled by the *)
(* Settle step of this call.  The step records whether a timer was pending.*)
(***************************************************************************)
\* clearTimeout(timerRef.current), and the same left out
clearTimeoutSkipped(timers) == timers
clearTimeout(timers) == {}

\* the forceSave of the render with content c
forceSave(c) ==
    /\ Len(inflight) < MaxInFlight
    /\ timerRef' = clearTimeout(timerRef)
    /\ performSaveStart(c, "force")
    /\ failedQuiet' = FALSE
    /\ ev' = Ev("ForceSave", c, IF timerRef # {} THEN "cancelled" ELSE "",
                IF isMounted THEN "" ELSE "fulfilled", "force", 0, FALSE, FALSE)
    /\ UNCHANGED <<host, isMounted, content, enabled, lastSavedContent,
                   cleanupRegistered, resetTimers>>

ForceSave == forceSave(content)

(***************************************************************************)
(* An onSave call settles and performSave continues after the await.       *)
(***************************************************************************)
Settle(i, o) ==
    LET s == inflight[i]
        r == OnSaveResult(host, o)
    IN  /\ inflight' = RemoveAt(inflight, i)
        /\ IF ~isMounted
           THEN /\ UNCHANGED <<status, lastSavedContent, hasUnsavedChanges, resetTimers,
                               failedQuiet>>
                /\ ev' = Ev("Settle", s.content, o, PerformSavePromise(r), s.origin, 0,
                            FALSE, FALSE)
           ELSE /\ lastSavedContent' = SettledSnapshot(r, s.content, lastSavedContent)
                /\ status' = SettledStatus(r)
                /\ hasUnsavedChanges' =
                       Rendered(status # SettledStatus(r), content,
                                SettledSnapshot(r, s.content, lastSavedContent),
                                hasUnsavedChanges)
                /\ resetTimers' =
                       IF r = "resolve"
                       THEN resetTimers \cup {[remaining |-> ResetDelay, age |-> 0]}
                       ELSE resetTimers
                /\ failedQuiet' =
                       IF r = "resolve" THEN failedQuiet
                       ELSE content = s.content /\ timerRef = {} /\ Len(inflight) = 1
                /\ ev' = Ev("Settle", s.content, o, PerformSavePromise(r), s.origin, 0,
                            r = "resolve", r # "resolve")
        /\ UNCHANGED <<host, isMounted, content, enabled, timerRef, cleanupRegistered>>

SaveSettles == \E i \in 1..Len(inflight) : \E o \in Outcomes(host) : Settle(i, o)

(***************************************************************************)
(* An auto-reset timer fires.                                              *)
(***************************************************************************)
\* the same without the isMountedRef check of the timer callback
ResetFireUnguarded(r) ==
    /\ r.remaining <= 0
    /\ resetTimers' = resetTimers \ {r}
    /\ status' = "idle"
    /\ hasUnsavedChanges' =
           Rendered(status # "idle", content, lastSavedContent, hasUnsavedChanges)
    /\ ev' = Ev("ResetFire", status, "", "", "", r.age, FALSE, FALSE)
    /\ UNCHANGED <<host, isMounted, content, enabled, lastSavedContent, timerRef,
                   cleanupRegistered, inflight, failedQuiet>>
ResetFire(r) ==
    /\ r.remaining <= 0
    /\ resetTimers' = resetTimers \ {r}
    /\ IF isMounted
       THEN /\ status' = "idle"
            /\ hasUnsavedChanges' =
                   Rendered(status # "idle", content, lastSavedContent, hasUnsavedChanges)
       ELSE UNCHANGED <<status, hasUnsavedChanges>>
    /\ ev' = Ev("ResetFire", status, "", "", "", r.age, FALSE, FALSE)
    /\ UNCHANGED <<host, isMounted, content, enabled, lastSavedContent, timerRef,
                   cleanupRegistered, inflight, failedQuiet>>

AutoReset == \E r \in resetTimers : ResetFire(r)

(***************************************************************************)
(* resetStatus()                                                           *)
(***************************************************************************)
ResetStatus ==
    /\ isMounted
    /\ status' = "idle"
    /\ hasUnsavedChanges' =
           Rendered(status # "idle", content, lastSavedContent, hasUnsavedChanges)
    /\ ev' = Plain("ResetStatus", "")
    /\ UNCHANGED <<host, isMounted, content, enabled, lastSavedContent, timerRef,
                   cleanupRegistered, inflight, resetTimers, failedQuiet>>

(***************************************************************************)
(* The owner re-renders with the same content.  With a new onSave,         *)
(* onSuccess or onError function performSave is a new function and the     *)
(* effect re-runs.                                                         *)
(***************************************************************************)
Rerender(newIdentity) ==
    /\ isMounted
    /\ hasUnsavedChanges' = (content # lastSavedContent)
    /\ IF newIdentity
       THEN /\ Len(inflight) < MaxInFlight
            /\ RunEffect(enabled, content, lastSavedContent)
               ELSE UNCHANGED <<timerRef, cleanupRegistered>>
    /\ ev' = Plain(IF newIdentity THEN "RerenderNew" ELSE "Rerender", "")
    /\ UNCHANGED <<host, isMounted, content, enabled, status, lastSavedContent, inflight,
                   resetTimers, failedQuiet>>

OwnerRerenders == \E n \in BOOLEAN : Rerender(n)

(***************************************************************************)
(* The enabled option changes: render, the effect re-runs.  The step       *)
(* records whether a timer was pending.                                    *)
(***************************************************************************)
SetEnabled ==
    /\ isMounted
    /\ Len(inflight) < MaxInFlight
    /\ enabled' = ~enabled
    /\ hasUnsavedChanges' = (content # lastSavedContent)
    /\ RunEffect(~enabled, content, lastSavedContent)
    /\ ev' = Ev("SetEnabled", "", IF timerRef # {} THEN "cancelled" ELSE "", "", "", 0,
                FALSE, FALSE)
    /\ UNCHANGED <<host, isMounted, content, status, lastSavedContent, inflight,
                   resetTimers, failedQuiet>>

(***************************************************************************)
(* The owner unmounts: the effect cleanups run, isMountedRef is cleared    *)
(* and the timer in timerRef is cleared.  The step records whether a timer *)
(* was pending.                                                            *)
(***************************************************************************)
\* what the unmount cleanups leave of the pending timers, and the same with
\* the clearTimeout left out
UnmountCleanupSkipped(timers) == timers
UnmountCleanup(timers) == {}

Unmount ==
    /\ isMounted
    /\ isMounted' = FALSE
    /\ timerRef' = UnmountCleanup(timerRef)
    /\ cleanupRegistered' = FALSE
    /\ ev' = Ev("Unmount", "", IF timerRef # {} THEN "cancelled" ELSE "", "", "", 0,
                FALSE, FALSE)
    /\ UNCHANGED <<host, content, enabled, status, lastSavedContent, hasUnsavedChanges,
                   inflight, resetTimers, failedQuiet>>

(***************************************************************************)
(* TickMs pass, unless a timer is due.                                     *)
(***************************************************************************)
Tick ==
    /\ \A t \in timerRef : t.remaining > 0
    /\ \A r \in resetTimers : r.remaining > 0
    /\ timerRef' = {[t EXCEPT !.remaining = @ - TickMs] : t \in timerRef}
    /\ resetTimers' = {[remaining |-> r.remaining - TickMs, age |-> r.age + TickMs] :
                          r \in resetTimers}
    /\ ev' = Plain("Tick", "")
    /\ UNCHANGED <<host, isMounted, content, enabled, status, lastSavedContent,
                   hasUnsavedChanges, cleanupRegistered, inflight, failedQuiet>>

(***************************************************************************)
(* The hook under every use: content changes, option changes, re-renders,  *)
(* forceSave, resetStatus, unmount, timers and save completions.           *)
(***************************************************************************)
UserTypes == (\E c \in Contents : ContentChange(c)) /\ UNCHANGED notHookVars
DebounceFires == TimerFire /\ UNCHANGED notHookVars
UserForcesSave == ForceSave /\ UNCHANGED notHookVars
OnSaveSettles == SaveSettles /\ UNCHANGED notHookVars
ResetFires == AutoReset /\ UNCHANGED notHookVars
UserResetsStatus == ResetStatus /\ UNCHANGED notHookVars
OwnerRenders == OwnerRerenders /\ UNCHANGED notHookVars
OwnerTogglesEnabled == SetEnabled /\ UNCHANGED notHookVars
OwnerUnmounts == Unmount /\ UNCHANGED notHookVars
TimePasses == Tick /\ UNCHANGED notHookVars

Next ==
    \/ UserTypes
    \/ DebounceFires
    \/ UserForcesSave
    \/ OnSaveSettles
    \/ ResetFires
    \/ UserResetsStatus
    \/ OwnerRenders
    \/ OwnerTogglesEnabled
    \/ OwnerUnmounts
    \/ TimePasses

Spec == Init /\ [][Next]_vars

\* the hook as the question pages use it: onSave is handleSaveAnswer
PageSpec == PageInit /\ [][Next]_vars

(***************************************************************************)
(* Typing only: enabled stays true, the hook stays mounted, and the only   *)
(* stimulus is the user's typing.  Bursts of changes are observed: a       *)
(* change belongs to the current burst when it comes less than DebounceMs  *)
(* after the previous one.                                                 *)
(***************************************************************************)
BurstTypes ==
    \E c \in Contents :
        /\ ContentChange(c)
        /\ quiet' = 0
        /\ burst' = IF quiet >= DebounceMs \/ ~burst.active
                    THEN [active |-> TRUE, changes |-> 1, calls |-> 0, arg |-> "",
                          differs |-> c # lastSavedContent]
                    ELSE [burst EXCEPT !.changes = Min(@ + 1, MaxBurst),
                                       !.differs = c # lastSavedContent]
        /\ UNCHANGED <<debounceVars, uiVars, overlapVars>>
BurstDebounceFires ==
    /\ TimerFire
    /\ burst' = [burst EXCEPT !.calls = Min(@ + 1, MaxBurst), !.arg = ev'.arg]
    /\ UNCHANGED <<quiet, debounceVars, uiVars, overlapVars>>
BurstOnSaveSettles == SaveSettles /\ UNCHANGED notHookVars
BurstResetFires == AutoReset /\ UNCHANGED notHookVars
BurstTimePasses ==
    /\ Tick
    /\ quiet' = Min(quiet + TickMs, DebounceMs)
    /\ UNCHANGED <<burst, debounceVars, uiVars, overlapVars>>

BurstNext ==
    \/ BurstTypes
    \/ BurstDebounceFires
    \/ BurstOnSaveSettles
    \/ BurstResetFires
    \/ BurstTimePasses

BurstSpec == Init /\ [][BurstNext]_vars

(***************************************************************************)
(* Auto-save left to itself: as above, and every onSave call resolves.     *)
(***************************************************************************)
AutoOnSaveResolves ==
    /\ \E i \in 1..Len(inflight) : Settle(i, "resolve")
    /\ UNCHANGED notHookVars

AutoNext ==
    \/ UserTypes
    \/ DebounceFires
    \/ AutoOnSaveResolves
    \/ ResetFires
    \/ TimePasses

AutoSpec == Init /\ [][AutoNext]_vars

(***************************************************************************)
(* useDebounce (src/src/core/config/env.ts).  A render with a new value or *)
(* a new delay runs the cleanup of the effect and the effect again; the    *)
(* timer callback sets the state to the value of the render that armed it. *)
(***************************************************************************)
SetValue(v) ==
    /\ consumerMounted
    /\ v # value
    /\ value' = v
    /\ timeoutId' = DebounceEffect(v, delay, timeoutId)
    /\ unchangedFor' = 0
    /\ restarts' = IF timeoutId # {} THEN Min(restarts + 1, MaxRestarts) ELSE 0
    /\ step' = "SetValue"
    /\ UNCHANGED <<delay, debouncedValue, consumerMounted>>

SetDelay(d) ==
    /\ consumerMounted
    /\ d # delay
    /\ delay' = d
    /\ timeoutId' = DebounceEffect(value, d, timeoutId)
    /\ step' = "SetDelay"
    /\ UNCHANGED <<value, debouncedValue, consumerMounted, unchangedFor, restarts>>

\* the timer callback: setDebouncedValue(value); React drops the update of an
\* unmounted component
Propagate ==
    \E t \in timeoutId :
        /\ t.remaining <= 0
        /\ timeoutId' = timeoutId \ {t}
        /\ debouncedValue' = IF consumerMounted THEN t.value ELSE debouncedValue
        /\ step' = "Propagate"
        /\ UNCHANGED <<value, delay, consumerMounted, unchangedFor, restarts>>

ConsumerUnmount ==
    /\ consumerMounted
    /\ consumerMounted' = FALSE
    /\ timeoutId' = DebounceCleanup(timeoutId)
    /\ step' = IF timeoutId # {} THEN "UnmountPending" ELSE "Unmount"
    /\ UNCHANGED <<value, delay, debouncedValue, unchangedFor, restarts>>

DebounceTick ==
    /\ \A t \in timeoutId : t.remaining > 0
    /\ timeoutId' = {[t EXCEPT !.remaining = @ - DebounceTickMs] : t \in timeoutId}
    /\ unchangedFor' = Min(unchangedFor + DebounceTickMs, MaxDelay)
    /\ step' = "Tick"
    /\ UNCHANGED <<value, delay, debouncedValue, consumerMounted, restarts>>

InputChanges == (\E v \in Values : SetValue(v)) /\ UNCHANGED notDebounceVars
DelayChanges == (\E d \in Delays : SetDelay(d)) /\ UNCHANGED notDebounceVars
ValuePropagates == Propagate /\ UNCHANGED notDebounceVars
ConsumerUnmounts == ConsumerUnmount /\ UNCHANGED notDebounceVars
DebounceTimePasses == DebounceTick /\ UNCHANGED notDebounceVars

DebounceNext ==
    \/ InputChanges
    \/ DelayChanges
    \/ ValuePropagates
    \/ ConsumerUnmounts
    \/ DebounceTimePasses

DebounceSpec == Init /\ [][DebounceNext]_vars

\* the same with the passing of time: the clock advances, and a timer that is
\* due runs its callback
DebounceFairSpec ==
    DebounceSpec /\ WF_vars(DebounceTimePasses) /\ WF_vars(ValuePropagates)

(***************************************************************************)
(* AnswerEditor (AnswerEditor.tsx).  Its content state is the content of   *)
(* the hook, and enabled is autoSave && !disabled.  Every render is        *)
(* followed by the effects that store the handleManualSave and the         *)
(* onCancel of that render in the refs the keydown listener reads.         *)
(***************************************************************************)
editorProps == <<autoSave, disabled, initialContent, onSave, onCancel>>

\* the two ref effects, after the render that the step causes
EditorRendered ==
    /\ handleManualSaveRef' =
           RefUpdate(handleManualSaveRef, handleManualSave(autoSave', onSave', content'))
    /\ onCancelRef' = RefUpdate(onCancelRef, onCancel')

\* a step of the hook inside the editor: the editor re-renders with the
\* props it has
HookStep == /\ key' = Key("Hook", NoHandler, 0)
            /\ UNCHANGED <<editorProps, listener, direct>>
            /\ EditorRendered

\* the user edits the text (the textarea is disabled with the editor)
handleChange(c) ==
    /\ ~(disabled \/ isSaving)
    /\ Len(inflight) + Len(direct) < MaxInFlight
    /\ ContentChange(c)
    /\ key' = Key("Change", NoHandler, 0)
    /\ UNCHANGED <<editorProps, listener, direct>>
    /\ EditorRendered

\* the owner passes another onSave function
OnSaveChange(os) ==
    /\ os # onSave
    /\ onSave' = os
    /\ Len(inflight) + Len(direct) < MaxInFlight
    /\ Rerender(TRUE)
    /\ key' = Key("OnSaveChange", NoHandler, 0)
    /\ UNCHANGED <<autoSave, disabled, initialContent, onCancel, listener, direct>>
    /\ EditorRendered

\* the owner passes another onCancel function, or none
OnCancelChange(oc) ==
    /\ oc # onCancel
    /\ onCancel' = oc
    /\ Rerender(FALSE)
    /\ key' = Key("OnCancelChange", NoHandler, 0)
    /\ UNCHANGED <<autoSave, disabled, initialContent, onSave, listener, direct>>
    /\ EditorRendered

\* the owner switches the autoSave prop
AutoSaveChange ==
    /\ autoSave' = ~autoSave
    /\ Len(inflight) + Len(direct) < MaxInFlight
    /\ IF disabled THEN Rerender(FALSE) ELSE SetEnabled
    /\ key' = Key("AutoSaveChange", NoHandler, 0)
    /\ UNCHANGED <<disabled, initialContent, onSave, onCancel, listener, direct>>
    /\ EditorRendered

\* the owner switches the disabled prop
DisabledChange ==
    /\ disabled' = ~disabled
    /\ Len(inflight) + Len(direct) < MaxInFlight
    /\ IF autoSave THEN SetEnabled ELSE Rerender(FALSE)
    /\ key' = Key("DisabledChange", NoHandler, 0)
    /\ UNCHANGED <<autoSave, initialContent, onSave, onCancel, listener, direct>>
    /\ EditorRendered

\* the owner passes another initialContent: the effect sets the content to it
InitialContentChange(c) ==
    /\ c # initialContent
    /\ initialContent' = c
    /\ Len(inflight) + Len(direct) < MaxInFlight
    /\ IF c # content THEN ContentChange(c) ELSE Rerender(FALSE)
    /\ key' = Key("InitialContentChange", NoHandler, 0)
    /\ UNCHANGED <<autoSave, disabled, onSave, onCancel, listener, direct>>
    /\ EditorRendered

\* a call of the handleManualSave h: forceSave() of its render in auto-save
\* mode, else onSave(content) of its render
CallManualSave(h) ==
    /\ Len(inflight) + Len(direct) < MaxInFlight
    /\ IF h.autoSave
       THEN /\ forceSave(h.content)
            /\ UNCHANGED direct
       ELSE /\ direct' = Append(direct, h.content)
            /\ UNCHANGED hookVars
    /\ UNCHANGED <<editorProps, listener>>
    /\ EditorRendered

\* the keydown listener, while it is registered: Ctrl/Cmd+S
KeyDownSave ==
    /\ listener.added > listener.removed
    /\ CallManualSave(handleManualSaveRef)
    /\ key' = Key("KeySave", handleManualSaveRef, 0)

\* the keydown listener, while it is registered: Escape
KeyDownEscape ==
    /\ listener.added > listener.removed
    /\ key' = IF onCancelRef # 0 THEN Key("Cancel", NoHandler, onCancelRef)
              ELSE Key("Escape", NoHandler, 0)
    /\ UNCHANGED <<hookVars, editorProps, handleManualSaveRef, onCancelRef, listener,
                   direct>>

\* a click on the Save Answer button, while it is rendered and enabled
ClickSave ==
    /\ isMounted
    /\ ~autoSave
    /\ ~(disabled \/ isSaving \/ ~hasUnsavedChanges)
    /\ CallManualSave(handleManualSave(autoSave, onSave, content))
    /\ key' = Key("ClickSave", handleManualSave(autoSave, onSave, content), 0)

\* an onSave call of handleManualSave settles: handleManualSave returns (or
\* throws), nothing looks at the result
DirectSettle(i, o) ==
    /\ direct' = RemoveAt(direct, i)
    /\ key' = Key(IF OnSaveResult(host, o) = "resolve" THEN "DirectResolved"
                  ELSE "DirectRejected",
                  handleManualSave(FALSE, onSave, direct[i]), 0)
    /\ UNCHANGED <<hookVars, editorProps, handleManualSaveRef, onCancelRef, listener>>

\* the editor unmounts: the hook unmounts, the keydown listener is removed
EditorUnmount ==
    /\ Unmount
    /\ listener' = [listener EXCEPT !.removed = @ + 1]
    /\ key' = Key("Unmount", NoHandler, 0)
    /\ UNCHANGED <<editorProps, handleManualSaveRef, onCancelRef, direct>>

(***************************************************************************)
(* The editor and its keyboard shortcuts while the owner re-renders it     *)
(* with other callbacks, another mode and other content, all within less   *)
(* than the debounce delay.                                                *)
(***************************************************************************)
restVars == <<burstVars, debounceVars, overlapVars, pageVars, widgetVars>>

KeyTypes == (\E c \in Contents : handleChange(c)) /\ UNCHANGED restVars
KeyOnSaveChanges == (\E os \in OnSaveIds : OnSaveChange(os)) /\ UNCHANGED restVars
KeyOnCancelChanges == (\E oc \in OnCancelIds : OnCancelChange(oc)) /\ UNCHANGED restVars
KeyAutoSaveChanges == AutoSaveChange /\ UNCHANGED restVars
KeySavePressed == KeyDownSave /\ UNCHANGED restVars
KeyEscapePressed == KeyDownEscape /\ UNCHANGED restVars
KeyOnSaveSettles == SaveSettles /\ HookStep /\ UNCHANGED restVars
KeyDirectSettles ==
    /\ \E i \in 1..Len(direct) : \E o \in Outcomes(host) : DirectSettle(i, o)
    /\ UNCHANGED restVars
KeyEditorUnmounts == EditorUnmount /\ UNCHANGED restVars

KeyNext ==
    \/ KeyTypes
    \/ KeyOnSaveChanges
    \/ KeyOnCancelChanges
    \/ KeyAutoSaveChanges
    \/ KeySavePressed
    \/ KeyEscapePressed
    \/ KeyOnSaveSettles
    \/ KeyDirectSettles
    \/ KeyEditorUnmounts

KeySpec == Init /\ [][KeyNext]_vars

(***************************************************************************)
(* The editor in both modes, enabled and disabled, with a fixed onSave:    *)
(* typing, the save shortcut, the Save Answer button, the debounce and     *)
(* reset timers and the completions of the saves.                          *)
(***************************************************************************)
EditorTypes == (\E c \in Contents : handleChange(c)) /\ UNCHANGED restVars
EditorAutoSaveChanges == AutoSaveChange /\ UNCHANGED restVars
EditorDisabledChanges == DisabledChange /\ UNCHANGED restVars
EditorSavePressed == KeyDownSave /\ UNCHANGED restVars
EditorSaveClicked == ClickSave /\ UNCHANGED restVars
EditorDebounceFires == TimerFire /\ HookStep /\ UNCHANGED restVars
EditorOnSaveSettles == SaveSettles /\ HookStep /\ UNCHANGED restVars
EditorDirectSettles ==
    /\ \E i \in 1..Len(direct) : \E o \in Outcomes(host) : DirectSettle(i, o)
    /\ UNCHANGED restVars
EditorResetFires == AutoReset /\ HookStep /\ UNCHANGED restVars
EditorTimePasses == Tick /\ HookStep /\ UNCHANGED restVars

EditorNext ==
    \/ EditorTypes
    \/ EditorAutoSaveChanges
    \/ EditorDisabledChanges
    \/ EditorSavePressed
    \/ EditorSaveClicked
    \/ EditorDebounceFires
    \/ EditorOnSaveSettles
    \/ EditorDirectSettles
    \/ EditorResetFires
    \/ EditorTimePasses

EditorSpec == Init /\ [][EditorNext]_vars

(***************************************************************************)
(* The editor on QuestionDetailPage: handleSaveAnswer starts a refetch of   *)
(* the question after each update that succeeded, and the page passes the  *)
(* refetched answer to the editor as initialContent.  A refetch started by *)
(* the save of a content delivers that content.                            *)
(***************************************************************************)
DetailInit == host = "QuestionDetailPage" /\ InitCommon

\* what handleSaveAnswer does to the refetches when the update of c settles
refetch(o, c) == IF o = "Succeeded" THEN refetches \cup {c} ELSE refetches

DetailOnSaveSettles ==
    /\ \E i \in 1..Len(inflight) : \E o \in Outcomes(host) :
           /\ Settle(i, o)
           /\ refetches' = refetch(o, inflight[i].content)
    /\ HookStep
    /\ UNCHANGED <<burstVars, debounceVars, overlapVars, widgetVars>>

\* a refetch delivers: the page renders the editor with the new answer
DetailRefetchArrives ==
    /\ isMounted
    /\ \E c \in refetches :
           /\ refetches' = refetches \ {c}
           /\ IF c # initialContent THEN InitialContentChange(c)
              ELSE UNCHANGED <<hookVars, editorVars>>
    /\ UNCHANGED <<burstVars, debounceVars, overlapVars, widgetVars>>

DetailNext ==
    \/ EditorTypes
    \/ EditorDebounceFires
    \/ DetailOnSaveSettles
    \/ DetailRefetchArrives
    \/ EditorResetFires
    \/ EditorTimePasses

DetailSpec == DetailInit /\ [][DetailNext]_vars

(***************************************************************************)
(* Typing under an owner that re-renders: EditQuestionPage makes a new     *)
(* handleSaveAnswer on every render, so each of its renders gives the hook *)
(* a new onSave.  The debounce calls are counted since the last content    *)
(* change, as for the bursts.                                              *)
(***************************************************************************)
EditInit == host = "EditQuestionPage" /\ InitCommon

RenderOwnerRerenders == Rerender(TRUE) /\ UNCHANGED notHookVars

RenderNext ==
    \/ BurstTypes
    \/ BurstDebounceFires
    \/ BurstOnSaveSettles
    \/ BurstResetFires
    \/ BurstTimePasses
    \/ RenderOwnerRerenders

RenderSpec == EditInit /\ [][RenderNext]_vars

(***************************************************************************)
(* SearchInput with an owner that keeps the value in its state             *)
(* (onChange={setSearch}).  A render is folded into the step that causes   *)
(* it, with the effect that copies a changed value prop to localValue.     *)
(***************************************************************************)
\* the owner's onChange with v, and the sync effect after its render
SearchOnChange(v, local) ==
    /\ searchValue' = v
    /\ localValue' = IF v # searchValue THEN v ELSE local

\* a keystroke: handleChange(v)
SearchHandleChange(v) ==
    /\ searchMounted
    /\ v # localValue
    /\ localValue' = v
    /\ debounceRef' = {[arg |-> v, remaining |-> SearchDebounceMs]}
    /\ cleared' = FALSE
    /\ UNCHANGED <<searchValue, searchMounted, lastOnChange>>

\* the debounced call comes due: onChange(newValue) of its handleChange
SearchTimerFire ==
    \E t \in debounceRef :
        /\ t.remaining = 0
        /\ debounceRef' = debounceRef \ {t}
        /\ SearchOnChange(t.arg, localValue)
        /\ lastOnChange' = [by |-> "Debounce", arg |-> t.arg]
        /\ UNCHANGED <<searchMounted, cleared>>

\* the clear button or Escape: handleClear, which leaves the timer alone
SearchHandleClear ==
    /\ searchMounted
    /\ SearchOnChange("", "")
    /\ lastOnChange' = [by |-> "Clear", arg |-> ""]
    /\ cleared' = TRUE
    /\ UNCHANGED <<debounceRef, searchMounted>>

\* the owner sets the value itself: the effect copies it to localValue
SearchValueChange(v) ==
    /\ searchMounted
    /\ v # searchValue
    /\ searchValue' = v
    /\ localValue' = v
    /\ UNCHANGED <<debounceRef, searchMounted, cleared, lastOnChange>>

\* unmount: the cleanup clears the timer in debounceRef
SearchUnmount ==
    /\ searchMounted
    /\ searchMounted' = FALSE
    /\ debounceRef' = {}
    /\ UNCHANGED <<searchValue, localValue, cleared, lastOnChange>>

SearchTick ==
    /\ debounceRef # {}
    /\ \A t \in debounceRef : t.remaining > 0
    /\ debounceRef' = {[t EXCEPT !.remaining = @ - SearchTickMs] : t \in debounceRef}
    /\ UNCHANGED <<searchValue, localValue, searchMounted, cleared, lastOnChange>>

notSearchVars == <<hookVars, burstVars, debounceVars, editorVars, pageVars, filterVars,
                   overlapVars>>

SearchTypes == (\E v \in Values : SearchHandleChange(v)) /\ UNCHANGED notSearchVars
SearchDebounceFires == SearchTimerFire /\ UNCHANGED notSearchVars
SearchClears == SearchHandleClear /\ UNCHANGED notSearchVars
SearchOwnerSets == (\E v \in Values : SearchValueChange(v)) /\ UNCHANGED notSearchVars
SearchUnmounts == SearchUnmount /\ UNCHANGED notSearchVars
SearchTimePasses == SearchTick /\ UNCHANGED notSearchVars

SearchNext ==
    \/ SearchTypes
    \/ SearchDebounceFires
    \/ SearchClears
    \/ SearchOwnerSets
    \/ SearchUnmounts
    \/ SearchTimePasses

SearchSpec == Init /\ [][SearchNext]_vars

(***************************************************************************)
(* QuestionFilters on QuestionsPage: the search text goes through          *)
(* useDebounce (value is searchInput, debouncedValue is debouncedSearch),  *)
(* and the sync effect runs after every render in which debouncedSearch,   *)
(* the filters object or onChange has changed.  onChange is the setter of  *)
(* the owner's state, which stays the same function; every call of it with *)
(* a new object re-renders the owner with that object as filters.          *)
(***************************************************************************)
\* the owner's filters state after setFilters with a new object
NewFilters(q) ==
    /\ query' = q
    /\ filtersId' = 1 - filtersId
    /\ syncPending' = TRUE

\* the user edits the search text: searchInput changes, the dependencies of
\* the sync effect do not
FilterSearchInput(v) == SetValue(v) /\ UNCHANGED filterVars

\* the timer of useDebounce fires: a changed debouncedSearch re-renders
FilterPropagate ==
    /\ Propagate
    /\ syncPending' = (syncPending \/ debouncedValue' # debouncedValue)
    /\ UNCHANGED <<query, filtersId, selections>>

\* a run of the sync effect
FilterSync ==
    /\ consumerMounted
    /\ syncPending
    /\ IF debouncedValue # query
       THEN NewFilters(OrUndefined(debouncedValue))
       ELSE syncPending' = FALSE /\ UNCHANGED <<query, filtersId>>
    /\ UNCHANGED <<selections, debounceVars>>

\* the user picks a technology or a difficulty: onChange({...filters, ...})
FilterSelect ==
    /\ consumerMounted
    /\ selections < MaxSelections
    /\ selections' = selections + 1
    /\ NewFilters(query)
    /\ UNCHANGED debounceVars

FilterTick == DebounceTick /\ UNCHANGED filterVars

notFilterVars == <<hookVars, burstVars, editorVars, pageVars, searchVars, overlapVars>>

FilterTypes == (\E v \in Values : FilterSearchInput(v)) /\ UNCHANGED notFilterVars
FilterPropagates == FilterPropagate /\ UNCHANGED notFilterVars
FilterSyncs == FilterSync /\ UNCHANGED notFilterVars
FilterSelects == FilterSelect /\ UNCHANGED notFilterVars
FilterTimePasses == FilterTick /\ UNCHANGED notFilterVars

FilterNext ==
    \/ FilterTypes
    \/ FilterPropagates
    \/ FilterSyncs
    \/ FilterSelects
    \/ FilterTimePasses

FilterSpec == Init /\ [][FilterNext]_vars

\* effects that are due run, timers that are due fire, time passes
FilterFairSpec ==
    /\ FilterSpec
    /\ WF_vars(FilterSyncs)
    /\ WF_vars(FilterPropagates)
    /\ WF_vars(FilterTimePasses)

(***************************************************************************)
(* Overlapping saves observed: when an onSave call succeeds on a mounted   *)
(* hook, the calls still in flight that were started before it are         *)
(* superseded.  inflight is in start order, so they are its first ones.    *)
(***************************************************************************)
SupersededAfter(i, succeeded) ==
    IF i <= superseded THEN superseded - 1
    ELSE IF succeeded THEN i - 1 ELSE superseded

OverlapSettles ==
    /\ \E i \in 1..Len(inflight) : \E o \in Outcomes(host) :
           /\ Settle(i, o)
           /\ superseded' = SupersededAfter(i, isMounted /\ OnSaveResult(host, o) = "resolve")
    /\ UNCHANGED <<burstVars, debounceVars, uiVars>>

OverlapNext ==
    \/ UserTypes
    \/ DebounceFires
    \/ UserForcesSave
    \/ OverlapSettles
    \/ ResetFires
    \/ TimePasses

OverlapSpec == Init /\ [][OverlapNext]_vars

(***************************************************************************)
(* Properties                                                              *)
(***************************************************************************)

\* no debounce timer is due
NoTimerDue == \A t \in timerRef : t.remaining > 0

\* the quiet period after the last content change of a burst is over and the
\* timers due at that moment have fired
BurstOver == burst.active /\ quiet = DebounceMs /\ NoTimerDue

C2_EventuallySaved ==
    (isMounted /\ enabled /\ timerRef = {} /\ inflight = <<>>)
        => content = lastSavedContent

\* C3: never two onSave invocations in flight at the same time.
C3_NoOverlappingSaves == Len(inflight) <= 1

\* C4: when onSave(C) resolves while the hook is mounted, the snapshot becomes
\* C, the status becomes 'saved', onSuccess is called, and hasUnsavedChanges
\* is false if the content is still C.
C4_SaveSuccess ==
    [][(ev'.type = "Settle" /\ ev'.outcome = "resolve" /\ isMounted)
         => /\ lastSavedContent' = ev'.arg
            /\ status' = "saved"
            /\ ev'.onSuccess
            /\ (content' = ev'.arg => ~hasUnsavedChanges')]_vars

C6_PageSaveFailure ==
    [][(ev'.type = "Settle" /\ ev'.outcome \in {"Failed", "Rejected"} /\ isMounted)
         => /\ status' = "error"
            /\ lastSavedContent' = lastSavedContent]_vars

\* C7: the promise of performSave, which forceSave returns and the debounce
\* timer discards, is never rejected, however onSave settles.
C7_RejectionNeverEscapes ==
    ev.type \in {"Settle", "ForceSave"} => ev.promise # "rejected"

C7_Witness ==
    /\ ev.type = "Settle" /\ ev.outcome = "reject" /\ ev.origin = "force"
    /\ ev.promise = "fulfilled"

\* C8: after an onSave call for the current content rejected, with nothing
\* armed, the debounce path does not invoke onSave until the content changes
\* or forceSave is called.
C8_NoAutomaticRetry == ~(failedQuiet /\ ev.type = "TimerFire")

\* C9: a successful save while mounted leaves a reset timer pending, the
\* timer fires ResetMs after it was set, and when it fires on a mounted hook
\* the status is 'idle'.
C9_AutoReset ==
    /\ (isMounted /\ status = "saved") =>
           \E r \in resetTimers : r.remaining = ResetMs - r.age
    /\ ev.type = "ResetFire" => ev.age = ResetMs
    /\ (ev.type = "ResetFire" /\ isMounted) => status = "idle"

C9_Witness ==
    /\ ev.type = "ResetFire" /\ ev.arg = "saved" /\ ev.age = ResetMs
    /\ isMounted
    /\ status = "idle"

\* C10: the auto-reset does not touch a status that a later save has set to
\* 'saving' or 'error' in the meantime.
C10_ResetOnlyIfNotSuperseded ==
    (ev.type = "ResetFire" /\ ev.arg \in {"saving", "error"}) => status = ev.arg

\* C11: forceSave() on a mounted hook clears the debounce timer and calls
\* onSave with the current content in the same step, its promise still
\* pending; no debounce timer fires next, however long the cancelled timer
\* had left; and the promise is settled by the step in which that onSave call
\* settles.
C11_ForceSaveImmediate ==
    [][/\ (ev'.type = "ForceSave" /\ isMounted) =>
              /\ inflight' = Append(inflight, [content |-> content, origin |-> "force"])
              /\ timerRef' = {}
              /\ status' = "saving"
              /\ ev'.promise = ""
       /\ ev.type = "ForceSave" => ev'.type # "TimerFire"
       /\ (ev'.type = "Settle" /\ ev'.origin = "force") =>
              /\ ev'.promise # ""
              /\ \E i \in 1..Len(inflight) :
                     /\ inflight[i] = [content |-> ev'.arg, origin |-> "force"]
                     /\ inflight' = RemoveAt(inflight, i)]_vars

\* forceSave() has cancelled a pending timer and started the save of the
\* current, unsaved content
C11_Witness ==
    /\ ev.type = "ForceSave" /\ ev.outcome = "cancelled" /\ ev.promise = ""
    /\ isMounted
    /\ content # lastSavedContent
    /\ timerRef = {}
    /\ inflight = <<[content |-> content, origin |-> "force"]>>

\* C12: from the unmount on no debounce timer is pending, no onSave call is
\* started and the status does not change; in particular a timer that was
\* pending at the unmount never calls onSave and never sets 'saving'.
C12_UnmountCancelsTimer ==
    [][~isMounted' =>
           /\ timerRef' = {}
           /\ Len(inflight') <= Len(inflight)
           /\ status' = status
           /\ ev'.type # "TimerFire"]_vars

\* the hook was unmounted with a debounce timer pending for unsaved content
C12_Witness ==
    /\ ev.type = "Unmount" /\ ev.outcome = "cancelled"
    /\ ~isMounted
    /\ content # lastSavedContent
    /\ timerRef = {}
    /\ status # "saving"
    /\ inflight = <<>>

\* C13: once the hook is unmounted, an onSave call that settles (either way)
\* and an auto-reset timer that fires change neither the status nor the
\* snapshot nor the returned hasUnsavedChanges, and set no new reset timer.
C13_NoUpdateAfterUnmount ==
    [][(~isMounted /\ ev'.type \in {"Settle", "ResetFire"}) =>
           /\ status' = status
           /\ lastSavedContent' = lastSavedContent
           /\ hasUnsavedChanges' = hasUnsavedChanges
           /\ resetTimers' \subseteq resetTimers
           /\ ~ev'.onSuccess /\ ~ev'.onError]_vars

\* after the unmount the reset timer of an earlier save has fired and a save
\* of other content has resolved: the status is still 'saved', the snapshot is
\* not the content of that save
C13_Witness ==
    /\ ev.type = "Settle" /\ ev.outcome = "resolve"
    /\ ~isMounted
    /\ status = "saved"
    /\ resetTimers = {}
    /\ lastSavedContent # ev.arg

\* C14: the hasUnsavedChanges the hook has returned is true exactly when the
\* content differs from the snapshot.
C14_HasUnsavedChangesExact ==
    isMounted => (hasUnsavedChanges = (content # lastSavedContent))

\* C15: while enabled is false no debounce timer is pending, so no content
\* change leads to a debounce call of onSave; a debounce timer fires, and
\* sets 'saving', only while enabled is true; and the step that turns enabled
\* off leaves no timer pending.
C15_DebounceOnlyWhileEnabled ==
    [][/\ ~enabled' => timerRef' = {}
       /\ ev'.type = "TimerFire" => enabled /\ enabled'
       /\ (ev'.type = "ContentChange" /\ ~enabled) =>
              /\ timerRef' = {}
              /\ inflight' = inflight
              /\ status' = status]_vars

\* enabled was turned off while a debounce timer was pending for unsaved
\* content
C15_Witness ==
    /\ ev.type = "SetEnabled" /\ ev.outcome = "cancelled"
    /\ ~enabled
    /\ isMounted
    /\ content # lastSavedContent
    /\ timerRef = {}

\* C16: whenever onSave is called, by the debounce timer or by forceSave(),
\* the content it is called with differs from the snapshot at that moment.
C16_NoRedundantSave ==
    [][Len(inflight') > Len(inflight) =>
           inflight'[Len(inflight')].content # lastSavedContent]_vars

\* C17: resetStatus() sets the status to 'idle' whatever it was, and changes
\* neither the snapshot nor the pending debounce timer nor hasUnsavedChanges.
C17_ResetStatusFrame ==
    [][ev'.type = "ResetStatus" =>
           /\ status' = "idle"
           /\ lastSavedContent' = lastSavedContent
           /\ timerRef' = timerRef
           /\ hasUnsavedChanges' = hasUnsavedChanges]_vars

\* C18: a content change that finds the status 'error' leaves it 'idle'.
C18_ErrorClearedByChange ==
    [][(ev'.type = "ContentChange" /\ status = "error") => status' = "idle"]_vars

\* C19: the value useDebounce returns changes only by the timer callback, to
\* the current input, which has then been unchanged for at least delay ms; a
\* new input leaves exactly one timer pending, for the new input and with the
\* full delay; and while the consumer is mounted, either a timer is pending
\* for the current input, with at most delay ms left, or the returned value
\* is the input; and when the input (and the delay) stay as they are from
\* some time on, the returned value is the input from some time on.
C19_Debounce ==
    [][/\ debouncedValue' # debouncedValue =>
              /\ step' = "Propagate"
              /\ debouncedValue' = value
              /\ unchangedFor >= delay
       /\ step' = "SetValue" =>
              timeoutId' = {[value |-> value', remaining |-> delay]}
       /\ consumerMounted' =>
              \/ \E t \in timeoutId' : t.value = value' /\ t.remaining <= delay'
              \/ debouncedValue' = value']_vars
    /\ \A v \in Values :
           <>[](consumerMounted /\ value = v /\ delay = DelayMs) => <>[](debouncedValue = v)

\* the input changed twice within the delay and then stayed: the last input
\* has been propagated, delay ms after it was set
C19_Witness ==
    /\ step = "Propagate"
    /\ restarts >= 2
    /\ consumerMounted
    /\ debouncedValue = value
    /\ value # InitialValue
    /\ unchangedFor = delay
    /\ timeoutId = {}

\* C20: from the unmount of the consumer on no timer of useDebounce is
\* pending, no timer callback runs and the debounced value does not change.
C20_DebounceUnmount ==
    [][~consumerMounted' =>
           /\ timeoutId' = {}
           /\ step' # "Propagate"
           /\ debouncedValue' = debouncedValue]_vars

\* the consumer unmounted while the propagation of a new input was pending,
\* and the delay has passed since
C20_Witness ==
    /\ ~consumerMounted
    /\ step = "Tick"
    /\ debouncedValue # value
    /\ unchangedFor >= delay
    /\ timeoutId = {}

\* C21: a Ctrl/Cmd+S key press calls the handleManualSave of the latest
\* render, built from the autoSave, onSave and content the editor has at the
\* key press, and that handler saves that content; an Escape key press calls
\* the onCancel the editor has at the key press, if it has one; and
\* addEventListener has been called once, removeEventListener once when the
\* editor is unmounted and not before.
C21_LatestHandlers ==
    [][/\ key'.type = "KeySave" =>
              /\ key'.handler = handleManualSave(autoSave, onSave, content)
              /\ autoSave =>
                     inflight' = Append(inflight, [content |-> content, origin |-> "force"])
              /\ ~autoSave => direct' = Append(direct, content)
       /\ key'.type = "Cancel" => key'.cancel = onCancel
       /\ key'.type = "Escape" => onCancel = 0
       /\ listener'.added = 1
       /\ listener'.removed = IF isMounted' THEN 0 ELSE 1]_vars

\* the save shortcut was pressed after the owner had passed another onSave
\* and the user had changed the content
C21_Witness ==
    /\ key.type = "KeySave"
    /\ key.handler.onSave # 1
    /\ key.handler.content # InitialContent
    /\ onCancelRef # 1
    /\ isMounted

\* C22: in either mode the save shortcut and the Save Answer button start a
\* save through forceSave: the status becomes 'saving' and onSave is called
\* by performSave, which on success sets the snapshot.
C22_ManualSaveIsForceSave ==
    [][key'.type \in {"KeySave", "ClickSave"} =>
           /\ status' = "saving"
           /\ inflight' = Append(inflight, [content |-> content, origin |-> "force"])]_vars

\* C23: in manual mode the Save Answer button is clicked only while
\* hasUnsavedChanges is true, and when the onSave call of a manual save of the
\* content the editor still holds resolves, hasUnsavedChanges is false.
C23_ManualSaveClearsUnsaved ==
    [][/\ key'.type = "ClickSave" => ~autoSave /\ hasUnsavedChanges
       /\ (key'.type = "DirectResolved" /\ ~autoSave /\ key'.handler.content = content)
              => ~hasUnsavedChanges']_vars

\* C24: at most one debounce timer is pending; a step that re-runs the effect
\* (a change of content, of enabled or of the save callback) leaves no timer
\* but the one it arms, for the content of that render and with the full
\* delay; and forceSave() leaves none.
C24_OneTimer ==
    [][/\ Cardinality(timerRef') <= 1
       /\ ev'.type \in {"ContentChange", "SetEnabled", "RerenderNew"} =>
              \A t \in timerRef' : t.content = content' /\ t.remaining = DebounceMs
       /\ ev'.type = "ForceSave" => timerRef' = {}]_vars

\* a content change has armed a timer while another one was pending, and it
\* is the only one
C24_Witness ==
    /\ ev.type = "ContentChange" /\ ev.outcome = "cancelled"
    /\ timerRef = {[content |-> content, remaining |-> DebounceMs]}
    /\ Len(inflight) = 0

\* C26: when an onSave call resolves that was started before a call that has
\* already succeeded, the snapshot stays what it is: it does not go back to
\* the content of the earlier-started save.
C26_SnapshotNeverGoesBack ==
    [][(ev'.type = "Settle" /\ ev'.outcome = "resolve" /\ superseded' < superseded)
           => lastSavedContent' = lastSavedContent]_vars

\* C25: text in the editor that differs from the last saved content is
\* replaced only by an edit of the user; a new initialContent from the page
\* leaves it as it is.
C25_EditsNotOverwritten ==
    [][(content # lastSavedContent /\ content' # content) => key'.type = "Change"]_vars

\* C27: under an owner that re-renders with new callback identities, the
\* debounce path invokes onSave at most once for a content that has not
\* changed: a debounce call is the first one since the last content change.
C27_RerenderNoExtraSave ==
    [][burst'.calls > burst.calls => (burst.calls = 0 /\ burst'.arg = content)]_vars

\* C28: while the disabled prop of AnswerEditor is true no step invokes
\* onSave, through the hook or directly.
C28_DisabledNeverSaves ==
    [][(disabled /\ disabled') =>
           (Len(inflight') <= Len(inflight) /\ Len(direct') <= Len(direct))]_vars

\* C29: after the field was cleared and until the next keystroke, the last
\* onChange call the owner of SearchInput received is onChange(''): no
\* debounced call scheduled before the clear arrives after it with old text.
C29_ClearIsLast == cleared => lastOnChange.arg = ""

\* C30: once the user leaves the search text of QuestionFilters alone,
\* whatever it is, the sync effect runs a finite number of times and comes to
\* rest: from some state on no run of it is due.
C30_FilterSyncStops == \A v \in Values : <>[](value = v) => <>[](~syncPending)

TypeOK ==
    /\ host \in Hosts
    /\ isMounted \in BOOLEAN
    /\ content \in Contents
    /\ enabled \in BOOLEAN
    /\ status \in AutoSaveStatus
    /\ lastSavedContent \in Contents
    /\ hasUnsavedChanges \in BOOLEAN
    /\ Cardinality(timerRef) <= 1
    /\ Len(inflight) <= MaxInFlight
====
